---- MODULE Spec2Model ----
(***************************************************************************)
(* A model of envs-var-validator: the Env Validator module                 *)
(* (src/envs/index.ts) with the joi schema it applies, and the post-install *)
(* script (src/scripts/post_install.sh).                                    *)
(*                                                                          *)
(* A text value is a sequence of one-character strings, so that splitting   *)
(* and number parsing are computed rather than assumed.  A mapping with     *)
(* optional keys (process.env, a manifest section) is a function whose      *)
(* DOMAIN is the set of keys present.                                       *)
(*                                                                          *)
(* What the model takes from the environment: joi and dotenv behave as      *)
(* documented; the manifests are well-formed JSON files written two-space   *)
(* indented, one entry a line; package names and version specifiers hold    *)
(* no blank; the mkdir and cp of the script's line 5 succeed; jq may or may *)
(* not be installed; the package manager's add may fail.                    *)
(***************************************************************************)
EXTENDS Integers, Sequences, FiniteSets, TLC

\* ------------------------------------------------------------------ bounds
MaxPortLen == 2
MaxNatsLen == 5
MaxUriLen == 1

\* ------------------------------------------------------------ text helpers
StringsUpTo(alphabet, n) == UNION {[1..k -> alphabet] : k \in 0..n}

PortChars == {"3", "0", "a"}
NatsChars == {"a", "b", ","}
UriChars == {"m"}

EmptyMap == [k \in {} |-> <<>>]

\* String.prototype.split(sep) for a one-character separator: the segments
\* between separators, in order; a text without separator is one segment.
RECURSIVE split(_, _)
split(s, sep) ==
    IF \E i \in 1..Len(s) : s[i] = sep
    THEN LET i == CHOOSE k \in 1..Len(s) :
                      s[k] = sep /\ \A j \in 1..(k - 1) : s[j] # sep
         IN  <<SubSeq(s, 1, i - 1)>> \o split(SubSeq(s, i + 1, Len(s)), sep)
    ELSE <<s>>

\* ------------------------------------------------------ joi (the schema)
DigitValue(c) == IF c = "3" THEN 3 ELSE 0
IsDigit(c) == c \in {"0", "3"}

\* joi.number() on a text: joi's numberRx, here an optional sign followed
\* by one or more digits (the texts of the model hold no point, exponent or
\* blank, and stay far below the unsafe-integer range).
numberRx(s) ==
    LET body == IF Len(s) > 0 /\ s[1] = "-" THEN Tail(s) ELSE s
    IN  Len(body) > 0 /\ \A i \in 1..Len(body) : IsDigit(body[i])

RECURSIVE digitsValue(_)
digitsValue(d) ==
    IF Len(d) = 0 THEN 0
    ELSE 10 * digitsValue(SubSeq(d, 1, Len(d) - 1)) + DigitValue(d[Len(d)])

\* parseFloat on a text that matched numberRx.
parseFloat(s) ==
    IF s[1] = "-" THEN 0 - digitsValue(Tail(s)) ELSE digitsValue(s)

NoError == [present |-> FALSE, message |-> ""]
ValidationError(msg) == [present |-> TRUE, message |-> msg]

\* PORT: joi.number().required()
validatePORT(obj) ==
    IF "PORT" \notin DOMAIN obj THEN ValidationError("\"PORT\" is required")
    ELSE IF ~numberRx(obj["PORT"]) THEN ValidationError("\"PORT\" must be a number")
    ELSE NoError

\* NATS_SERVERS: joi.array().items(joi.string()).required(); joi.string()
\* rejects the empty text, and the first offending item is reported.
validateNATS_SERVERS(obj) ==
    IF "NATS_SERVERS" \notin DOMAIN obj
    THEN ValidationError("\"NATS_SERVERS\" is required")
    ELSE LET items == obj["NATS_SERVERS"]
             empty == {i \in 1..Len(items) : items[i] = <<>>}
         IN  IF empty = {} THEN NoError
             ELSE ValidationError(
                      "\"NATS_SERVERS[" \o ToString((CHOOSE i \in empty : \A j \in empty : i <= j) - 1)
                      \o "]\" is not allowed to be empty")

\* Mutant: joi.string().allow("").required()
validateDB_URI_allowEmpty(obj) ==
    IF "DB_URI" \notin DOMAIN obj THEN ValidationError("\"DB_URI\" is required")
    ELSE NoError

\* DB_URI: joi.string().required()
validateDB_URI(obj) ==
    IF "DB_URI" \notin DOMAIN obj THEN ValidationError("\"DB_URI\" is required")
    ELSE IF obj["DB_URI"] = <<>>
    THEN ValidationError("\"DB_URI\" is not allowed to be empty")
    ELSE NoError

SchemaKeys == {"PORT", "NATS_SERVERS", "DB_URI"}

\* Mutant: the schema without .unknown(true)
unknownForbidden == FALSE

\* .unknown(true): a key the schema does not declare is allowed.
unknownAllowed == TRUE

\* envsSchema.validate(obj): the keys are checked in the order the schema
\* declares them and the first error ends the validation (abortEarly); on
\* success PORT is converted to its number and every other key is kept.
envsSchema_validate(obj) ==
    LET ePort == validatePORT(obj)
        eNats == validateNATS_SERVERS(obj)
        eUri  == validateDB_URI(obj)
        err   == IF ePort.present THEN ePort
                 ELSE IF eNats.present THEN eNats
                 ELSE IF eUri.present THEN eUri
                 ELSE IF ~unknownAllowed /\ DOMAIN obj \ SchemaKeys # {}
                 THEN ValidationError("key is not allowed")
                 ELSE NoError
    IN  [error |-> err,
         value |-> IF err.present THEN EmptyMap
                   ELSE [k \in DOMAIN obj |->
                            IF k = "PORT" THEN parseFloat(obj[k]) ELSE obj[k]]]

\* Mutant: NATS_SERVERS wrapped in a list without being split
validateInput_noSplit(env) ==
    [k \in DOMAIN env |-> IF k = "NATS_SERVERS" THEN <<env[k]>> ELSE env[k]]

\* { ...process.env, NATS_SERVERS: process.env.NATS_SERVERS?.split(",") }:
\* an undefined NATS_SERVERS is a key joi treats as missing.
validateInput(env) ==
    [k \in DOMAIN env |-> IF k = "NATS_SERVERS" THEN split(env[k], ",") ELSE env[k]]

\* export const envs = { port, nats_servers, db_uri }
exportEnvs(v) ==
    [port |-> v["PORT"], nats_servers |-> v["NATS_SERVERS"], db_uri |-> v["DB_URI"]]

\* dotenv/config: a variable of the .env file is set unless the process
\* environment already holds it.
dotenvConfig(env, file) ==
    [k \in DOMAIN env \cup DOMAIN file |-> IF k \in DOMAIN env THEN env[k] ELSE file[k]]

EnvNames == {"PORT", "NATS_SERVERS", "DB_URI", "FOO"}

DotenvFiles ==
    {EmptyMap,
     [k \in {"PORT", "NATS_SERVERS", "DB_URI"} |->
        IF k = "PORT" THEN <<"3", "0">>
        ELSE IF k = "NATS_SERVERS" THEN <<"a", ",", "b">>
        ELSE <<"m">>]}

ValuesOf(name) ==
    IF name = "PORT" THEN StringsUpTo(PortChars, MaxPortLen)
    ELSE IF name = "NATS_SERVERS" THEN StringsUpTo(NatsChars, MaxNatsLen)
    ELSE IF name = "DB_URI" THEN StringsUpTo(UriChars, MaxUriLen)
    ELSE {<<"b", "a", "r">>}

\* --------------------------------------------- post_install.sh: the texts
NumPkgs == 2
MaxUp == 3

\* cd ../../ (and the ../../ of the copy): two levels up.
UpLevels == 2
\* grep -A 100 / grep -B 100
GrepContext == 100

PkgNames ==
    << <<"j", "o", "i">>,
       <<"@", "t", "y", "p", "e", "s", "/", "n", "o", "d", "e">>,
       <<"d", "o", "t", "e", "n", "v">>,
       <<"@", "a", "/", "b">> >>

Names == {PkgNames[i] : i \in 1..NumPkgs}

\* The version specifier this package's manifest gives each dependency.
VersionOf(name) ==
    IF name = PkgNames[1] THEN <<"^", "1", "7">>
    ELSE IF name = PkgNames[2] THEN <<"^", "2", "0">>
    ELSE <<"^", "1", "6">>

\* The version specifier of a dependency the host declared itself.
HostVersion == <<"*">>

EmptyManifest == [dependencies |-> EmptyMap, devDependencies |-> EmptyMap]

\* The entries of a manifest section, in the order of the file.
SectionEntries(section) ==
    SelectSeq(SubSeq(PkgNames, 1, NumPkgs), LAMBDA n : n \in DOMAIN section)

Min(a, b) == IF a < b THEN a ELSE b

RECURSIVE joinWith(_, _)
joinWith(texts, sep) ==
    IF Len(texts) = 0 THEN <<>>
    ELSE IF Len(texts) = 1 THEN texts[1]
    ELSE texts[1] \o <<sep>> \o joinWith(Tail(texts), sep)

\* The text of the line that opens a section of a manifest.
SectionLine(key) ==
    IF key = "dependencies"
    THEN <<" ", " ", "\"", "d", "e", "p", "e", "n", "d", "e", "n", "c", "i", "e", "s",
           "\"", ":", " ", "{">>
    ELSE <<" ", " ", "\"", "d", "e", "v", "D", "e", "p", "e", "n", "d", "e", "n", "c",
           "i", "e", "s", "\"", ":", " ", "{">>

\* A manifest as the lines of its file (two-space JSON, one entry a line):
\* braces, a "name" field, then each section that has entries.
RenderSection(m, key) ==
    IF DOMAIN m[key] = {} THEN <<>>
    ELSE <<[kind |-> "section", key |-> key]>>
         \o [i \in 1..Len(SectionEntries(m[key])) |->
               [kind |-> "entry", name |-> SectionEntries(m[key])[i],
                version |-> m[key][SectionEntries(m[key])[i]]]]
         \o <<[kind |-> "close"]>>

Render(m) ==
    <<[kind |-> "open"],
      [kind |-> "field", name |-> <<"n", "a", "m", "e">>, version |-> <<"p", "k", "g">>]>>
    \o RenderSection(m, "dependencies")
    \o RenderSection(m, "devDependencies")
    \o <<[kind |-> "close"]>>

\* ------------------------------------------- post_install.sh: the functions
\* detect_package_manager: the test of line 18 is `[ -f pnpm-lock.yaml` (no
\* closing bracket: status 2) or else the command `-f` (not found: status
\* 127), so its branch is never taken, whatever files exist.
pnpmTest(files) == FALSE

detect_package_manager(files) ==
    IF "yarn.lock" \in files THEN "yarn"
    ELSE IF pnpmTest(files) THEN "pnpm"
    ELSE "npm"

\* get_dependencies with jq: "\(.key)@\(.value)" for each entry of the
\* section; nothing when the section is missing (jq fails, echo "").
get_dependencies_jq(m, deps_type) ==
    [i \in 1..Len(SectionEntries(m[deps_type])) |->
        SectionEntries(m[deps_type])[i] \o <<"@">>
            \o m[deps_type][SectionEntries(m[deps_type])[i]]]

\* get_dependencies without jq: the lines from the section's opening line
\* (grep -A 100) up to the last line holding a closing brace (grep -B 100),
\* those of the form "...": kept (grep), and `"k": "v"` rewritten k@v (sed),
\* a line sed does not match being left as it is.
get_dependencies_grep(m, deps_type) ==
    LET lines == Render(m)
        hits  == {i \in 1..Len(lines) :
                     lines[i].kind = "section" /\ lines[i].key = deps_type}
        after == IF hits = {} THEN <<>>
                 ELSE LET first == CHOOSE i \in hits : \A j \in hits : i <= j
                      IN  SubSeq(lines, first, Min(Len(lines), first + GrepContext))
        closes == {i \in 1..Len(after) : after[i].kind = "close"}
        before == IF closes = {} THEN <<>>
                  ELSE SubSeq(after, 1, CHOOSE i \in closes : \A j \in closes : j <= i)
        keyed == SelectSeq(before, LAMBDA l : l.kind \in {"section", "entry", "field"})
    IN  [i \in 1..Len(keyed) |->
            IF keyed[i].kind \in {"entry", "field"}
            THEN keyed[i].name \o <<"@">> \o keyed[i].version
            ELSE SectionLine(keyed[i].key)]

get_dependencies(jq, m, deps_type) ==
    IF jq THEN get_dependencies_jq(m, deps_type)
    ELSE get_dependencies_grep(m, deps_type)

\* dependency_exists: with jq the name is a key of dependencies or of
\* devDependencies; without, some line of the file holds "<name>":
dependency_exists(jq, dep_name, main) ==
    IF jq
    THEN dep_name \in DOMAIN main.dependencies \cup DOMAIN main.devDependencies
    ELSE \E i \in 1..Len(Render(main)) :
            /\ Render(main)[i].kind \in {"entry", "field"}
            /\ Render(main)[i].name = dep_name

\* dep_name=$(echo "$dep" | cut -d'@' -f1): the text before the first @
\* (the whole line when it holds none).
dep_name_of(dep) == split(dep, "@")[1]

\* ALL_DEPS="$CURRENT_DEPS\n$CURRENT_DEV_DEPS": an empty output is an empty line.
LinesOf(out) == IF out = <<>> THEN << <<>> >> ELSE out

\* The loop of lines 87-102: every non-empty line of ALL_DEPS whose dep_name
\* dependency_exists does not find, in order, joined by blanks.
missing_deps(jq, all_deps, main) ==
    joinWith(SelectSeq(all_deps,
                 LAMBDA dep : dep # <<>>
                              /\ ~dependency_exists(jq, dep_name_of(dep), main)),
             " ")

\* The words of an unquoted $MISSING_DEPS.
Words(text) == SelectSeq(split(text, " "), LAMBDA w : w # <<>>)

\* ---------------------------------------- the package manager (external)
\* name@version, the @ of a scope not being the separator.
SpecAt(word) ==
    LET ats == {i \in 2..Len(word) : word[i] = "@"}
    IN  IF ats = {} THEN 0 ELSE CHOOSE i \in ats : \A j \in ats : j <= i

SpecName(word) == IF SpecAt(word) = 0 THEN word ELSE SubSeq(word, 1, SpecAt(word) - 1)
SpecVersion(word) == IF SpecAt(word) = 0 THEN <<>> ELSE SubSeq(word, SpecAt(word) + 1, Len(word))

RegistryNames == {PkgNames[i] : i \in 1..Len(PkgNames)}
ValidArgs(args) == \A i \in 1..Len(args) : SpecName(args[i]) \in RegistryNames

\* add/install: each package is recorded under dependencies with its version.
RECURSIVE pmAdd(_, _)
pmAdd(main, args) ==
    IF Len(args) = 0 THEN main
    ELSE LET n == SpecName(args[1])
             d == main.dependencies
         IN  pmAdd([main EXCEPT !.dependencies =
                        [k \in DOMAIN d \cup {n} |->
                            IF k = n THEN SpecVersion(args[1]) ELSE d[k]]],
                   Tail(args))

VARIABLES
    processEnv,   \* process.env
    dotenvFile,   \* the .env file of the working directory
    modPc,        \* where the load of the module stands
    error,        \* const { error, value } = envsSchema.validate(...)
    value,
    envs,         \* the exported object; EmptyMap until it is exported
    thrown,       \* the message of the Error thrown, "" when none
    fs,           \* level -> the marker files of the directory that many
                  \* levels above the package directory (MaxUp: the root)
    hostManifest, \* package.json of the directory ../../, when it exists
    ownManifest,  \* node_modules/envs-var-validator/package.json below it
    ownExists,    \* whether that file exists
    hasJq,        \* command -v jq
    dest,         \* ../../src/envs/index.ts: "absent", "old" or "template"
    cwd,          \* the level of the working directory
    pc,           \* the line the script stands at
    run,          \* 1: the first run of the script, 2: the run after it
    PACKAGE_MANAGER,
    ALL_DEPS,
    MISSING_DEPS,
    output,       \* what the run echoed
    exitCode,     \* the exit status, once pc = "done"
    calls,        \* the add/install invocations: run, manager, words, ok
    startManifest, \* observation: hostManifest when the current run began
    afterFirst    \* observation: dest and exit status at the end of run 1

envVars == <<processEnv, dotenvFile, modPc, error, value, envs, thrown>>

hostVars == <<fs, hostManifest, ownManifest, ownExists, hasJq, dest, calls,
              startManifest, afterFirst>>
runVars == <<cwd, pc, run, PACKAGE_MANAGER, ALL_DEPS, MISSING_DEPS, output, exitCode>>
installVars == <<hostVars, runVars>>

vars == <<envVars, installVars>>

\* An optional value: <<>> when the variable is unset, <<v>> when it is v.
Optional(name) == {<<>>} \cup {<<v>> : v \in ValuesOf(name)}

MakeEnv(opt) ==
    [k \in {n \in EnvNames : opt[n] # <<>>} |-> opt[k][1]]

EnvInit ==
    /\ \E p \in Optional("PORT"), n \in Optional("NATS_SERVERS"),
          u \in Optional("DB_URI"), f \in Optional("FOO") :
         processEnv = MakeEnv([k \in EnvNames |->
                                 IF k = "PORT" THEN p
                                 ELSE IF k = "NATS_SERVERS" THEN n
                                 ELSE IF k = "DB_URI" THEN u ELSE f])
    /\ dotenvFile \in DotenvFiles
    /\ modPc = "import"
    /\ error = NoError
    /\ value = EmptyMap
    /\ envs = EmptyMap
    /\ thrown = ""

\* import "dotenv/config"
ImportDotenv ==
    /\ modPc = "import"
    /\ processEnv' = dotenvConfig(processEnv, dotenvFile)
    /\ modPc' = "validate"
    /\ UNCHANGED <<dotenvFile, error, value, envs, thrown>>
    /\ UNCHANGED installVars

\* const { error, value } = envsSchema.validate({...})
Validate ==
    /\ modPc = "validate"
    /\ LET r == envsSchema_validate(validateInput(processEnv))
       IN  error' = r.error /\ value' = r.value
    /\ modPc' = "check"
    /\ UNCHANGED <<processEnv, dotenvFile, envs, thrown>>
    /\ UNCHANGED installVars

\* if (error) throw new Error(`config validation error: ${error.message}`)
Throw ==
    /\ modPc = "check"
    /\ error.present
    /\ thrown' = "config validation error: " \o error.message
    /\ modPc' = "thrown"
    /\ UNCHANGED <<processEnv, dotenvFile, error, value, envs>>
    /\ UNCHANGED installVars

\* const envVars = value; export const envs = {...}
Export ==
    /\ modPc = "check"
    /\ ~error.present
    /\ envs' = exportEnvs(value)
    /\ modPc' = "exported"
    /\ UNCHANGED <<processEnv, dotenvFile, error, value, thrown>>
    /\ UNCHANGED installVars

EnvNext == ImportDotenv \/ Validate \/ Throw \/ Export

\* ------------------------------------------------- post_install.sh: the run
Levels == 0..MaxUp
HostLevel == Min(UpLevels, MaxUp)

LockMarkers == {"yarn.lock", "pnpm-lock.yaml", "pnpm-workspace.yaml"}

ManifestOf(category, version) ==
    [dependencies |-> [n \in {k \in DOMAIN category : category[k] = "dep"} |-> version[n]],
     devDependencies |-> [n \in {k \in DOMAIN category : category[k] = "dev"} |-> version[n]]]

Categories == [Names -> {"none", "dep", "dev"}]

RunStart ==
    /\ cwd = 0
    /\ pc = "copy"
    /\ PACKAGE_MANAGER = ""
    /\ ALL_DEPS = <<>>
    /\ MISSING_DEPS = <<>>
    /\ output = <<>>
    /\ exitCode = 0

\* A host project with the package installed below its node_modules: any
\* lock markers, any manifest (or none), any manifest of the package.
ManifestCases ==
    /\ \E locks \in SUBSET LockMarkers, hostThere \in BOOLEAN :
         fs = [l \in Levels |->
                 IF l # HostLevel THEN {}
                 ELSE locks \cup {"node_modules"}
                      \cup (IF hostThere THEN {"package.json"} ELSE {})]
    /\ \E c \in Categories :
         hostManifest = IF "package.json" \in fs[HostLevel]
                        THEN ManifestOf(c, [n \in Names |-> HostVersion])
                        ELSE EmptyManifest
    /\ ownExists \in BOOLEAN
    /\ \E c \in Categories :
         ownManifest = IF ownExists
                       THEN ManifestOf(c, [n \in Names |-> VersionOf(n)])
                       ELSE EmptyManifest

DirKinds ==
    {{}, {"package.json"}, {"package.json", "node_modules"},
     {"package.json", "node_modules", "package-lock.json"}}

\* The script started anywhere: each directory from the working directory
\* up to the root may or may not be a project root.
DirectoryCases ==
    /\ fs \in [Levels -> DirKinds]
    /\ hostManifest = IF "package.json" \in fs[HostLevel]
                      THEN ManifestOf([n \in Names |-> "dep"], [n \in Names |-> HostVersion])
                      ELSE EmptyManifest
    /\ ownExists = ("node_modules" \in fs[HostLevel])
    /\ ownManifest = IF ownExists
                     THEN ManifestOf([n \in Names |-> "dep"], [n \in Names |-> VersionOf(n)])
                     ELSE EmptyManifest

InstallInit ==
    /\ ManifestCases \/ DirectoryCases
    /\ hasJq \in BOOLEAN
    /\ dest \in {"absent", "old"}
    /\ run = 1
    /\ calls = <<>>
    /\ startManifest = hostManifest
    /\ afterFirst = [dest |-> "absent", exitCode |-> 0]
    /\ RunStart

\* Mutant: line 5 left out, the destination file is not written
Copy_skipped ==
    /\ pc = "copy"
    /\ pc' = "cd"
    /\ UNCHANGED hostVars
    /\ UNCHANGED <<cwd, run, PACKAGE_MANAGER, ALL_DEPS, MISSING_DEPS, output, exitCode>>
    /\ UNCHANGED envVars

\* line 5: mkdir -p ../../src/envs && cp envs/index.ts ../../src/envs/index.ts
\* (the package ships envs/index.ts and the host tree is writable)
Copy ==
    /\ pc = "copy"
    /\ dest' = "template"
    /\ pc' = "cd"
    /\ UNCHANGED <<fs, hostManifest, ownManifest, ownExists, hasJq, calls,
                   startManifest, afterFirst>>
    /\ UNCHANGED <<cwd, run, PACKAGE_MANAGER, ALL_DEPS, MISSING_DEPS, output, exitCode>>
    /\ UNCHANGED envVars

\* line 7: cd ../../
Cd ==
    /\ pc = "cd"
    /\ cwd' = Min(cwd + UpLevels, MaxUp)
    /\ pc' = "detect"
    /\ UNCHANGED hostVars
    /\ UNCHANGED <<run, PACKAGE_MANAGER, ALL_DEPS, MISSING_DEPS, output, exitCode>>
    /\ UNCHANGED envVars

\* lines 55-57: PACKAGE_MANAGER=$(detect_package_manager)
Detect ==
    /\ pc = "detect"
    /\ PACKAGE_MANAGER' = detect_package_manager(fs[cwd])
    /\ output' = Append(output, "Detected package manager")
    /\ pc' = "check_main"
    /\ UNCHANGED hostVars
    /\ UNCHANGED <<cwd, run, ALL_DEPS, MISSING_DEPS, exitCode>>
    /\ UNCHANGED envVars

\* lines 64-67: if [ ! -f "$MAIN_PACKAGE_JSON" ]; then ... exit 1
CheckMain ==
    /\ pc = "check_main"
    /\ IF "package.json" \notin fs[cwd]
       THEN /\ output' = Append(output, "Error: Main package.json not found in root directory")
            /\ exitCode' = 1
            /\ pc' = "done"
       ELSE /\ pc' = "check_current"
            /\ UNCHANGED <<output, exitCode>>
    /\ UNCHANGED hostVars
    /\ UNCHANGED <<cwd, run, PACKAGE_MANAGER, ALL_DEPS, MISSING_DEPS>>
    /\ UNCHANGED envVars

\* Mutant: lines 70-73 without the exit 1
CheckCurrent_noExit ==
    /\ pc = "check_current"
    /\ output' = IF ~ownExists
                 THEN Append(output, "Error: Current package.json not found")
                 ELSE output
    /\ pc' = "read_deps"
    /\ UNCHANGED hostVars
    /\ UNCHANGED <<cwd, run, PACKAGE_MANAGER, ALL_DEPS, MISSING_DEPS, exitCode>>
    /\ UNCHANGED envVars

\* lines 70-73: if [ ! -f "$CURRENT_PACKAGE_JSON" ]; then ... exit 1
CheckCurrent ==
    /\ pc = "check_current"
    /\ IF ~ownExists
       THEN /\ output' = Append(output, "Error: Current package.json not found")
            /\ exitCode' = 1
            /\ pc' = "done"
       ELSE /\ pc' = "read_deps"
            /\ UNCHANGED <<output, exitCode>>
    /\ UNCHANGED hostVars
    /\ UNCHANGED <<cwd, run, PACKAGE_MANAGER, ALL_DEPS, MISSING_DEPS>>
    /\ UNCHANGED envVars

\* lines 79-84: CURRENT_DEPS, CURRENT_DEV_DEPS, ALL_DEPS
ReadDeps ==
    /\ pc = "read_deps"
    /\ ALL_DEPS' = LinesOf(get_dependencies(hasJq, ownManifest, "dependencies"))
                   \o LinesOf(get_dependencies(hasJq, ownManifest, "devDependencies"))
    /\ pc' = "find_missing"
    /\ UNCHANGED hostVars
    /\ UNCHANGED <<cwd, run, PACKAGE_MANAGER, MISSING_DEPS, output, exitCode>>
    /\ UNCHANGED envVars

\* lines 87-102: the loop over ALL_DEPS
FindMissing ==
    /\ pc = "find_missing"
    /\ MISSING_DEPS' = missing_deps(hasJq, ALL_DEPS, hostManifest)
    /\ pc' = "install"
    /\ UNCHANGED hostVars
    /\ UNCHANGED <<cwd, run, PACKAGE_MANAGER, ALL_DEPS, output, exitCode>>
    /\ UNCHANGED envVars

\* lines 105-125: the add command of $PACKAGE_MANAGER with the words of
\* $MISSING_DEPS, its status being the script's exit status; any other
\* value of $PACKAGE_MANAGER is reported and exits 1.  The package manager
\* refuses words that name no package, and may fail anyway (the network).
Install ==
    /\ pc = "install"
    /\ MISSING_DEPS # <<>>
    /\ IF PACKAGE_MANAGER \in {"yarn", "pnpm", "npm"}
       THEN \E failed \in {b \in BOOLEAN : ~ValidArgs(Words(MISSING_DEPS)) => b} :
              /\ calls' = Append(calls, [run |-> run, manager |-> PACKAGE_MANAGER,
                                         args |-> Words(MISSING_DEPS), ok |-> ~failed])
              /\ hostManifest' = IF failed THEN hostManifest
                                 ELSE pmAdd(hostManifest, Words(MISSING_DEPS))
              /\ exitCode' = IF failed THEN 1 ELSE 0
              /\ output' = Append(output, "Installing missing dependencies")
       ELSE /\ output' = Append(output, "Unknown package manager")
            /\ exitCode' = 1
            /\ UNCHANGED <<calls, hostManifest>>
    /\ pc' = "done"
    /\ UNCHANGED <<fs, ownManifest, ownExists, hasJq, dest, startManifest, afterFirst>>
    /\ UNCHANGED <<cwd, run, PACKAGE_MANAGER, ALL_DEPS, MISSING_DEPS>>
    /\ UNCHANGED envVars

\* lines 126-128: nothing is missing
AllInstalled ==
    /\ pc = "install"
    /\ MISSING_DEPS = <<>>
    /\ output' = Append(output, "All dependencies are already installed in the main project.")
    /\ exitCode' = 0
    /\ pc' = "done"
    /\ UNCHANGED hostVars
    /\ UNCHANGED <<cwd, run, PACKAGE_MANAGER, ALL_DEPS, MISSING_DEPS>>
    /\ UNCHANGED envVars

\* The installer is run again on the host as the first run left it.
Rerun ==
    /\ pc = "done"
    /\ run = 1
    /\ run' = 2
    /\ startManifest' = hostManifest
    /\ afterFirst' = [dest |-> dest, exitCode |-> exitCode]
    /\ cwd' = 0
    /\ pc' = "copy"
    /\ PACKAGE_MANAGER' = ""
    /\ ALL_DEPS' = <<>>
    /\ MISSING_DEPS' = <<>>
    /\ output' = <<>>
    /\ exitCode' = 0
    /\ UNCHANGED <<fs, hostManifest, ownManifest, ownExists, hasJq, dest, calls>>
    /\ UNCHANGED envVars

InstallNext ==
    \/ Copy \/ Cd \/ Detect \/ CheckMain \/ CheckCurrent \/ ReadDeps
    \/ FindMissing \/ Install \/ AllInstalled \/ Rerun

\* ----------------------------------------------------- the specifications
\* The Env Validator, loaded once in a process; the installer does not run.
EnvSpecInit ==
    /\ EnvInit
    /\ fs = [l \in Levels |-> {}]
    /\ hostManifest = EmptyManifest
    /\ ownManifest = EmptyManifest
    /\ ownExists = FALSE
    /\ hasJq = FALSE
    /\ dest = "absent"
    /\ run = 1
    /\ calls = <<>>
    /\ startManifest = EmptyManifest
    /\ afterFirst = [dest |-> "absent", exitCode |-> 0]
    /\ RunStart

EnvSpec == EnvSpecInit /\ [][EnvNext]_vars

\* The installer, run once and then once more; no module is loaded.
InstallSpecInit ==
    /\ InstallInit
    /\ processEnv = EmptyMap
    /\ dotenvFile = EmptyMap
    /\ modPc = "import"
    /\ error = NoError
    /\ value = EmptyMap
    /\ envs = EmptyMap
    /\ thrown = ""

InstallSpec == InstallSpecInit /\ [][InstallNext]_vars

\* =================================================================== claims
\* ------------------------------------------------ what the claims speak of
\* The module has finished loading, one way or the other.
Loaded == modPc \in {"thrown", "exported"}

Has(env, name) == name \in DOMAIN env

\* A text that reads as a decimal number: digits, after an optional sign.
IsNumberText(s) ==
    /\ s # <<>>
    /\ \A i \in 1..Len(s) : s[i] \in {"0", "3"} \/ (i = 1 /\ s[i] = "-")
    /\ s # <<"-">>

RECURSIVE Pow10(_)
Pow10(n) == IF n = 0 THEN 1 ELSE 10 * Pow10(n - 1)

RECURSIVE PlaceSum(_, _)
PlaceSum(s, i) ==
    IF i > Len(s) THEN 0
    ELSE (IF s[i] = "3" THEN 3 ELSE 0) * Pow10(Len(s) - i) + PlaceSum(s, i + 1)

\* The number a decimal text denotes, digit by place value.
NumberOf(s) == IF s[1] = "-" THEN 0 - PlaceSum(s, 2) ELSE PlaceSum(s, 1)

\* The snapshot violates the schema in one of the ways C1 lists.
ViolatesSchema(env) ==
    \/ ~Has(env, "PORT") \/ ~Has(env, "NATS_SERVERS") \/ ~Has(env, "DB_URI")
    \/ ~IsNumberText(env["PORT"])
    \/ env["DB_URI"] = <<>>

\* No comma-separated element of the text is empty.
NoEmptyElement(s) ==
    /\ s # <<>>
    /\ s[1] # "," /\ s[Len(s)] # ","
    /\ \A i \in 1..(Len(s) - 1) : ~(s[i] = "," /\ s[i + 1] = ",")

\* list is the ordered comma-split of text: its elements hold no comma and,
\* joined by commas, give the text back.
IsCommaSplitOf(list, text) ==
    /\ Len(list) >= 1
    /\ \A i \in 1..Len(list) : \A j \in 1..Len(list[i]) : list[i][j] # ","
    /\ joinWith(list, ",") = text

\* The exported object is the transformed input.
ExportsTransformed ==
    /\ modPc = "exported"
    /\ thrown = ""
    /\ DOMAIN envs = {"port", "nats_servers", "db_uri"}
    /\ envs.port = NumberOf(processEnv["PORT"])
    /\ IsCommaSplitOf(envs.nats_servers, processEnv["NATS_SERVERS"])
    /\ envs.db_uri = processEnv["DB_URI"]

\* C1: whenever the snapshot the module validates violates the schema (PORT,
\* NATS_SERVERS or DB_URI absent, PORT not a number, DB_URI empty), the load
\* ends by throwing the error that carries joi's message, and nothing is
\* exported; and nothing is exported on any path but a successful load.
C1_FailFast ==
    /\ modPc # "exported" => envs = EmptyMap
    /\ (modPc \in {"check", "thrown", "exported"} /\ ViolatesSchema(processEnv))
         => error.present /\ error.message # ""
    /\ (Loaded /\ ViolatesSchema(processEnv))
         => /\ modPc = "thrown"
            /\ thrown = "config validation error: " \o error.message
            /\ envs = EmptyMap

C1_Witness ==
    /\ modPc = "thrown"
    /\ Has(processEnv, "PORT") /\ IsNumberText(processEnv["PORT"])
    /\ Has(processEnv, "NATS_SERVERS")
    /\ Has(processEnv, "DB_URI") /\ processEnv["DB_URI"] = <<>>
    /\ thrown = "config validation error: \"DB_URI\" is not allowed to be empty"

\* The precondition of C2: PORT reads as a number, DB_URI is a non-empty
\* text and NATS_SERVERS is present.
C2_WellTyped ==
    /\ Has(processEnv, "PORT") /\ IsNumberText(processEnv["PORT"])
    /\ Has(processEnv, "DB_URI") /\ processEnv["DB_URI"] # <<>>
    /\ Has(processEnv, "NATS_SERVERS")

\* C2 as stated: every well-typed snapshot loads without error and exports
\* port = the number of PORT, nats_servers = the ordered comma-split of
\* NATS_SERVERS, db_uri = DB_URI.
C2_Original == (Loaded /\ C2_WellTyped) => ExportsTransformed

\* C2 as amended: the same, for the snapshots in which no comma-separated
\* element of NATS_SERVERS is empty (joi.string() rejects an empty element).
C2_Success ==
    (Loaded /\ C2_WellTyped /\ NoEmptyElement(processEnv["NATS_SERVERS"]))
        => ExportsTransformed

C2_Witness ==
    /\ modPc = "exported"
    /\ processEnv["PORT"] = <<"3", "0">>
    /\ processEnv["NATS_SERVERS"] = <<"a", ",", "b", ",", "a">>
    /\ envs = [port |-> 30, nats_servers |-> << <<"a">>, <<"b">>, <<"a">> >>,
               db_uri |-> <<"m">>]

\* The snapshot without the variables the schema does not declare.
KnownOnly(env) == [k \in DOMAIN env \cap SchemaKeys |-> env[k]]

\* C9: the load of a snapshot ends as the load of the same snapshot without
\* its unknown variables does (same success or failure, same message, same
\* exported object), and the exported object has exactly the fields port,
\* nats_servers and db_uri.
C9_UnknownIgnored ==
    /\ modPc = "exported" => DOMAIN envs = {"port", "nats_servers", "db_uri"}
    /\ Loaded =>
         LET r == envsSchema_validate(validateInput(KnownOnly(processEnv)))
         IN  /\ (modPc = "thrown") = r.error.present
             /\ modPc = "thrown" => thrown = "config validation error: " \o r.error.message
             /\ modPc = "exported" => envs = exportEnvs(r.value)

C9_Witness ==
    /\ modPc = "exported"
    /\ Has(processEnv, "FOO")
    /\ DOMAIN envs = {"port", "nats_servers", "db_uri"}

\* ------------------------------------------- what the installer claims say
Done == pc = "done"

\* The add/install invocations of the current run.
RunCalls == {i \in 1..Len(calls) : calls[i].run = run}

Declared(m) == DOMAIN m.dependencies \cup DOMAIN m.devDependencies

\* Both manifests the script reads exist.
ManifestsExist == "package.json" \in fs[cwd] /\ ownExists

\* The packages of this utility the host did not declare when the run began.
Undeclared == Declared(ownManifest) \ Declared(startManifest)

\* name@version as this utility's manifest pairs them.
OwnSpec(n) ==
    n \o <<"@">> \o (IF n \in DOMAIN ownManifest.dependencies
                     THEN ownManifest.dependencies[n]
                     ELSE ownManifest.devDependencies[n])

LastOutput == IF output = <<>> THEN "" ELSE output[Len(output)]

\* C3: a run on a host that already declares every package of this utility
\* (scoped names included) invokes no add/install, exits 0 and reports that
\* everything is installed.  Stated for the hosts that have jq, the branch
\* of the script that reads the manifests as JSON.
C3_Original ==
    (Done /\ hasJq /\ ManifestsExist /\ Declared(ownManifest) \subseteq Declared(startManifest))
        => /\ RunCalls = {}
           /\ exitCode = 0
           /\ LastOutput = "All dependencies are already installed in the main project."

\* The manager the marker files of a directory call for: yarn, else pnpm,
\* else npm.
ExpectedManager(files) ==
    IF "yarn.lock" \in files THEN "yarn"
    ELSE IF "pnpm-lock.yaml" \in files \/ "pnpm-workspace.yaml" \in files THEN "pnpm"
    ELSE "npm"

\* C4: once detected, the package manager is the first match of the priority
\* list yarn, pnpm, npm over the host's marker files, and every add/install
\* of the run is that manager's.
C4_Original ==
    /\ pc \notin {"copy", "cd", "detect"} => PACKAGE_MANAGER = ExpectedManager(fs[cwd])
    /\ \A i \in RunCalls : Done => calls[i].manager = ExpectedManager(fs[cwd])

\* C5: a run on a host that lacks at least one package of this utility
\* invokes add/install exactly once, with exactly the undeclared packages,
\* each as name@version of this utility's manifest.  Stated for the hosts
\* that have jq.
C5_Original ==
    (Done /\ hasJq /\ ManifestsExist /\ Undeclared # {})
        => /\ Cardinality(RunCalls) = 1
           /\ \A i \in RunCalls :
                {calls[i].args[k] : k \in 1..Len(calls[i].args)}
                    = {OwnSpec(n) : n \in Undeclared}

\* C6: a run that finds the host manifest or this utility's manifest missing
\* exits non-zero with the diagnostic of the missing file and invokes no
\* add/install; every other run that ends without a failed add exits 0.
C6_ManifestFailures ==
    Done =>
      /\ "package.json" \notin fs[cwd]
           => /\ exitCode # 0
              /\ LastOutput = "Error: Main package.json not found in root directory"
              /\ RunCalls = {}
      /\ ("package.json" \in fs[cwd] /\ ~ownExists)
           => /\ exitCode # 0
              /\ LastOutput = "Error: Current package.json not found"
              /\ RunCalls = {}
      /\ (ManifestsExist /\ \A i \in RunCalls : calls[i].ok) => exitCode = 0

C6_Witness ==
    /\ Done
    /\ "package.json" \in fs[cwd]
    /\ ~ownExists
    /\ exitCode = 1
    /\ calls = <<>>

\* A project root: a manifest, a dependency directory and a lockfile.
IsProjectRoot(files) ==
    /\ "package.json" \in files
    /\ "node_modules" \in files
    /\ files \cap {"yarn.lock", "pnpm-lock.yaml", "package-lock.json"} # {}

ProjectRoots == {l \in Levels : IsProjectRoot(fs[l])}

\* C7: the first run operates from the nearest directory, going up from the
\* working directory, that is a project root; when there is none up to the
\* root it exits non-zero reporting that no project root was found, without
\* having copied the file or installed anything.
C7_Original ==
    (Done /\ run = 1) =>
        IF ProjectRoots # {}
        THEN cwd = CHOOSE l \in ProjectRoots : \A k \in ProjectRoots : l <= k
        ELSE /\ exitCode # 0
             /\ LastOutput = "project root not found"
             /\ dest # "template"
             /\ calls = <<>>

\* C8: a second run, after a first run that succeeded, leaves the
\* destination file and the host manifest as the first run left them, raises
\* no error and invokes no add/install.  Stated for the hosts that have jq.
C8_Original ==
    (Done /\ run = 2 /\ hasJq /\ afterFirst.exitCode = 0)
        => /\ dest = afterFirst.dest
           /\ hostManifest = startManifest
           /\ exitCode = 0
           /\ RunCalls = {}

\* C10: the copy is the first step of a run: while it is pending nothing
\* has been detected, checked or reported, and from then on the destination
\* holds the template, so that a run ending with a missing-manifest failure
\* has written the destination file.
C10_CopyFirst ==
    /\ pc = "copy" => PACKAGE_MANAGER = "" /\ output = <<>> /\ cwd = 0
    /\ pc # "copy" => dest = "template"
    /\ (Done /\ exitCode # 0 /\ ~ManifestsExist) => dest = "template"

C10_Witness ==
    /\ Done
    /\ run = 1
    /\ exitCode = 1
    /\ "package.json" \notin fs[cwd]
    /\ LastOutput = "Error: Main package.json not found in root directory"
    /\ dest = "template"

====
